---- MODULE Spec2Model ----
(***************************************************************************)
(* A model of cwl_tes/tes.py: one TESTask instance running its lifecycle   *)
(* (create_task_msg, create_task, the polling loop with is_done,           *)
(* collect_outputs, the output callback, cleanup) against a TES service,   *)
(* cwltool's collect_outputs and the engine's output callback, all of      *)
(* which may return or raise.                                              *)
(***************************************************************************)
EXTENDS Integers, Sequences, FiniteSets, TLC

VARIABLES
    requirements,   \* self.builder.requirements: the list of requirement records
    listing,        \* self.generatefiles["listing"]
    joborder,       \* self.joborder: the parameters and their value trees, in order
    stdout,         \* self.stdout
    stderr,         \* self.stderr
    spec_requirements,  \* self.spec["requirements"]
    spec_hints,     \* self.spec["hints"]
    default_container,  \* self.runtime_context.default_container
    id,             \* self.id
    state,          \* self.state
    outputs,        \* self.outputs
    task,           \* the local "task" of run(): the message create_task_msg built
    current_try,    \* the local "current_try" of run()
    pc,             \* the position of run()
    exc,            \* the exception that left run(), or the one pending in the try
    tmpfiles,       \* the files parse_listing wrote under self.tmpdir
    tmp_exists,     \* whether self.tmpdir exists on disk
    stage_exists,   \* whether self.stagedir is set and exists on disk
    rm_tmpdir,      \* self.runtime_context.rm_tmpdir as cleanup read it
    create_calls,   \* number of client.create_task calls
    minimal_calls,  \* number of client.get_task(id, "MINIMAL") calls
    failed_polls,   \* number of get_task(id, "MINIMAL") calls that raised
    running_polls,  \* number of get_task(id, "MINIMAL") answers with a non-terminal state
    retried_ok,     \* whether a poll answered a non-terminal state after an earlier poll raised
    full_calls,     \* number of client.get_task(id, "FULL") calls
    full_raised,    \* whether the get_task(id, "FULL") call raised
    collected,      \* what collect_outputs did: "no", "ok" or "raised"
    log             \* the output_callback invocations and cleanup calls, in order

vars == <<requirements, listing, joborder, stdout, stderr, spec_requirements,
          spec_hints, default_container, id, state, outputs, task, current_try, pc, exc,
          tmpfiles, tmp_exists, stage_exists, rm_tmpdir, create_calls,
          minimal_calls, failed_polls, running_polls, retried_ok, full_calls,
          full_raised, collected, log>>

----------------------------------------------------------------------------
(* Bounds of the model *)

\* the longest generated-files listing
MaxListing == 2
\* the longest self.builder.requirements of the translation-only runs
MaxRequirements == 2
\* the longest self.spec["requirements"] and self.spec["hints"]
MaxSpecRequirements == 2
\* the most entries of a mapping, a list or a secondaryFiles of the job order
MaxKids == 2
\* the most polls the service answers with a non-terminal state
MaxRunningPolls == 4

----------------------------------------------------------------------------
(* Values *)

None == "None"

\* a requirement bound: absent (None), a number of cores / MiB, or an expression string
NumBound == [kind |-> "num", val |-> 2048]
StrBound == [kind |-> "str", val |-> 0]
NoBound == [kind |-> "none", val |-> 0]
Bounds == {NoBound, NumBound, StrBound}

\* isinstance(x, str) and "x is None" of create_task_msg
IsStr(x) == x.kind = "str"
IsNone(x) == x.kind = "none"

\* i.get(a, i.get(b, None)): the value under a when the key a is present
GetOr(a, b) == IF IsNone(a) THEN b ELSE a

terminal_states == {"COMPLETE", "CANCELED", "EXECUTOR_ERROR", "SYSTEM_ERROR"}
\* the states a TES service answers a poll with
ServiceStates == {"RUNNING"} \cup terminal_states

max_tries == 10

\* round(q / 4) for a whole number q of quarters, as Python 3 rounds: to the
\* nearest integer, a half to the even one
Round4(q) ==
    LET f == q \div 4
        r == q % 4
    IN  IF r = 0 \/ r = 1 THEN f
        ELSE IF r = 3 THEN f + 1
        ELSE IF f % 2 = 0 THEN f ELSE f + 1

\* the sleep of run() truncating its bounds (int()) where the code rounds them
sleep_range_truncated(try) ==
    [lo |-> (3 * try * try) \div 4, hi |-> (9 * try * try) \div 4]

\* the arguments of random.randint in run(): with delay = 1.5 * try**2,
\* round(delay - 0.5 * delay) and round(delay + 0.5 * delay)
sleep_range(try) ==
    [lo |-> Round4(3 * try * try), hi |-> Round4(9 * try * try)]

----------------------------------------------------------------------------
(* The job a TESTask is constructed with *)

\* a requirement record of self.builder.requirements; a key the record does
\* not carry is NoBound (numbers and expressions) or None (strings)
Requirement(class, cmin, cmax, rmin, rmax, omin, omax, dout) ==
    [class |-> class, coresMin |-> cmin, coresMax |-> cmax,
     ramMin |-> rmin, ramMax |-> rmax, outdirMin |-> omin, outdirMax |-> omax,
     dockerOutputDirectory |-> dout]

ResourceRequirements ==
    {Requirement("ResourceRequirement", a, b, c, d, e, f, None) :
        a \in Bounds, b \in Bounds, c \in Bounds, d \in Bounds,
        e \in Bounds, f \in Bounds}

DockerRequirements ==
    {Requirement("DockerRequirement", NoBound, NoBound, NoBound, NoBound,
                 NoBound, NoBound, d) : d \in {None, "/out"}}

\* an entry of the generated-files listing; writable is "absent" when the
\* entry has no "writable" key, contents says whether it has a "contents" key
ListingEntries ==
    [basename : {"gen"}, class : {"File"}, contents : BOOLEAN,
     writable : {"absent", "true", "false"}]

SeqsUpTo(S, n) == UNION {[1..k -> S] : k \in 0..n}

Listings == SeqsUpTo(ListingEntries, MaxListing)

\* the jobs the model runs: every single ResourceRequirement or
\* DockerRequirement with an empty listing, and every listing with no
\* requirement or a plain numeric ResourceRequirement
PlainResources ==
    Requirement("ResourceRequirement", NumBound, NoBound, NumBound, NoBound,
                NumBound, NoBound, None)
JobInputs ==
    {[requirements |-> r, listing |-> <<>>] :
        r \in {<<>>} \cup {<<q>> : q \in ResourceRequirements \cup DockerRequirements}}
    \cup {[requirements |-> r, listing |-> l] :
        r \in {<<>>, <<PlainResources>>}, l \in Listings}

\* a value of the job order: a file reference (a mapping carrying location,
\* path and class; kids are its secondaryFiles, keyed by basename), another
\* mapping (kids are its items, in order), a list (kids are its elements)
\* or a scalar
Node(tag, path, kids) == [tag |-> tag, path |-> path, kids |-> kids]
Kid(key, val) == [key |-> key, val |-> val]
Scalar == Node("scalar", "", <<>>)
PlainFile == Node("file", "a", <<>>)
IndexedFile == Node("file", "b", <<Kid("b.idx", Node("file", "b.idx", <<>>))>>)
FileNodes == {PlainFile, IndexedFile}

\* the mappings and the lists whose entries are drawn from S
Containers(S) ==
    {Node(tag, "", [i \in 1..k |-> Kid(IF tag = "map" THEN "k" \o ToString(i) ELSE "", f[i])]) :
        tag \in {"map", "list"}, k \in 0..MaxKids, f \in [1..MaxKids -> S]}

FlatContainers == Containers(FileNodes \cup {Scalar})
JobValues ==
    FileNodes \cup {Scalar} \cup FlatContainers
    \cup Containers(FileNodes \cup {Scalar} \cup FlatContainers)

\* the job orders of the input-resolution runs: one parameter "x"
JobOrders == {<<>>} \cup {<<Kid("x", v)>> : v \in JobValues}

\* a requirement record of self.spec["requirements"] or self.spec["hints"]
SpecRequirements ==
    [class : {"DockerRequirement"}, dockerPull : {None, "pull:img"},
     dockerImageId : {None, "id:img"}]
    \cup {[class |-> "InlineJavascriptRequirement", dockerPull |-> None,
           dockerImageId |-> None]}

OtherRequirement ==
    Requirement("InlineJavascriptRequirement", NoBound, NoBound, NoBound,
                NoBound, NoBound, NoBound, None)

----------------------------------------------------------------------------
(* create_task_msg and what it calls *)

\* get_container(): the configured default or "python:2.7", overwritten by
\* every DockerRequirement of requirements + hints, from index i
RECURSIVE get_container_from(_, _, _)
get_container_from(reqs, i, container) ==
    IF i > Len(reqs) THEN container
    ELSE IF reqs[i].class = "DockerRequirement"
    THEN get_container_from(reqs, i + 1,
             IF reqs[i].dockerPull # None THEN reqs[i].dockerPull
             ELSE IF reqs[i].dockerImageId # None THEN reqs[i].dockerImageId
             ELSE "python:2.7")
    ELSE get_container_from(reqs, i + 1, container)

get_container(sreqs, hints, default) ==
    get_container_from(sreqs \o hints, 1,
                       IF default # None THEN default ELSE "python:2.7")

\* create_input(name, d) for a file reference without inline contents
create_input(name, d) ==
    [name |-> name, url |-> "location:" \o d.path, path |-> d.path,
     type |-> "FILE"]

\* isinstance(v, dict)
IsDict(v) == v.tag \in {"file", "map"}

\* parse_job_order(k, v, inputs); walk_items is its loop over v.items() of
\* a mapping that is no file reference, walk_list its loop over a list,
\* both ending at the first entry that is no dict; walk_secondary is its
\* loop over v["secondaryFiles"]
RECURSIVE parse_job_order(_, _, _)
RECURSIVE walk_items(_, _, _)
RECURSIVE walk_list(_, _, _, _)
RECURSIVE walk_secondary(_, _, _)
parse_job_order(k, v, inputs) ==
    IF v.tag = "file"
    THEN walk_secondary(v.kids, 1, Append(inputs, create_input(k, v)))
    ELSE IF v.tag = "map" THEN walk_items(v.kids, 1, inputs)
    ELSE IF v.tag = "list" THEN walk_list(k, v.kids, 1, inputs)
    ELSE inputs

walk_secondary(kids, i, inputs) ==
    IF i > Len(kids) THEN inputs
    ELSE walk_secondary(kids, i + 1,
             parse_job_order(kids[i].key, kids[i].val, inputs))

walk_items(kids, i, inputs) ==
    IF i > Len(kids) THEN inputs
    ELSE IF IsDict(kids[i].val)
    THEN walk_items(kids, i + 1,
             parse_job_order(kids[i].key, kids[i].val, inputs))
    ELSE inputs

walk_list(k, kids, i, inputs) ==
    IF i > Len(kids) THEN inputs
    ELSE IF IsDict(kids[i].val)
    THEN walk_list(k, kids, i + 1,
             parse_job_order(k \o "[" \o ToString(i - 1) \o "]", kids[i].val, inputs))
    ELSE inputs

\* the first loop of get_inputs(): parse_job_order for every parameter
RECURSIVE job_order_inputs(_, _, _)
job_order_inputs(order, i, inputs) ==
    IF i > Len(order) THEN inputs
    ELSE job_order_inputs(order, i + 1,
             parse_job_order(order[i].key, order[i].val, inputs))


\* tes.Input built by parse_listing for one item
ListingInput(item) ==
    [name |-> item.basename,
     url |-> IF item.contents THEN "tmpdir" ELSE "location",
     path |-> "/var/spool/cwl/" \o item.basename,
     type |-> "FILE"]

\* parse_listing looking for "writable" in the first item only
RECURSIVE parse_listing_first_item_only(_, _, _, _)
parse_listing_first_item_only(items, i, inputs, written) ==
    IF i > Len(items)
    THEN [raised |-> FALSE, inputs |-> inputs, written |-> written]
    ELSE IF i = 1 /\ items[i].writable # "absent"
    THEN [raised |-> TRUE, inputs |-> inputs, written |-> written]
    ELSE parse_listing_first_item_only(items, i + 1,
             Append(inputs, ListingInput(items[i])),
             IF items[i].contents THEN written \cup {items[i].basename}
                                  ELSE written)

\* parse_listing(listing, inputs): raised says UnsupportedRequirement was
\* raised, written is the set of files written under tmpdir before that
RECURSIVE parse_listing_from(_, _, _, _)
parse_listing_from(items, i, inputs, written) ==
    IF i > Len(items)
    THEN [raised |-> FALSE, inputs |-> inputs, written |-> written]
    ELSE IF items[i].writable # "absent"
    THEN [raised |-> TRUE, inputs |-> inputs, written |-> written]
    ELSE parse_listing_from(items, i + 1, Append(inputs, ListingInput(items[i])),
             IF items[i].contents THEN written \cup {items[i].basename}
                                  ELSE written)

parse_listing(items, inputs) == parse_listing_from(items, 1, inputs, {})

\* ram / 953.674 and disk / 953.674, in thousandths of a GB, rounded down
ToGB(x) == [kind |-> "num", val |-> (x.val * 1000000) \div 953674]

workdir_output ==
    [name |-> "workdir", path |-> "/var/spool/cwl", type |-> "DIRECTORY"]

\* the output for self.stdout or self.stderr, when it is not None
StdOutput(name, file) ==
    IF file = None THEN <<>>
    ELSE <<[name |-> name, path |-> "/var/spool/cwl/" \o file, type |-> "FILE"]>>

\* output_parameters with the working directory appended first
output_parameters_workdir_first(out, err) ==
    <<workdir_output>> \o StdOutput("stdout", out) \o StdOutput("stderr", err)

\* output_parameters of create_task_msg before its loop over the
\* requirements: stdout, stderr, then the working directory
output_parameters(out, err) ==
    StdOutput("stdout", out) \o StdOutput("stderr", err) \o <<workdir_output>>

\* the loop of create_task_msg over self.builder.requirements, from index i
\* with the locals cpus, ram, disk and output_parameters
RECURSIVE requirements_loop(_, _, _, _)
requirements_loop(reqs, i, res, outs) ==
    IF i > Len(reqs)
    THEN [raised |-> FALSE, resources |-> res, outputs |-> outs]
    ELSE IF reqs[i].class = "ResourceRequirement"
    THEN LET cpus == GetOr(reqs[i].coresMin, reqs[i].coresMax)
             ram == GetOr(reqs[i].ramMin, reqs[i].ramMax)
             disk == GetOr(reqs[i].outdirMin, reqs[i].outdirMax)
         IN  IF \/ IsNone(cpus) \/ IsStr(cpus)
                \/ IsNone(ram) \/ IsStr(ram)
                \/ IsNone(disk) \/ IsStr(disk)
             THEN [raised |-> TRUE, resources |-> res, outputs |-> outs]
             ELSE requirements_loop(reqs, i + 1,
                      [cpu_cores |-> cpus, ram_gb |-> ToGB(ram),
                       disk_gb |-> ToGB(disk)], outs)
    ELSE IF reqs[i].class = "DockerRequirement"
            /\ reqs[i].dockerOutputDirectory # None
    THEN requirements_loop(reqs, i + 1, res,
             Append(outs, [name |-> "dockerOutputDirectory",
                           path |-> reqs[i].dockerOutputDirectory,
                           type |-> "DIRECTORY"]))
    ELSE requirements_loop(reqs, i + 1, res, outs)

NoResources == [cpu_cores |-> NoBound, ram_gb |-> NoBound, disk_gb |-> NoBound]

\* create_task_msg(): the tes.Task, or UnsupportedRequirement raised by
\* parse_listing or by the requirements loop
create_task_msg(reqs, items) ==
    LET ins == parse_listing(items, job_order_inputs(joborder, 1, <<>>))
        rl == requirements_loop(reqs, 1, NoResources,
                                output_parameters(stdout, stderr))
    IN  IF ins.raised
        THEN [raised |-> TRUE, written |-> ins.written, task |-> None]
        ELSE IF rl.raised
        THEN [raised |-> TRUE, written |-> ins.written, task |-> None]
        ELSE [raised |-> FALSE, written |-> ins.written,
              task |-> [inputs |-> ins.inputs, outputs |-> rl.outputs,
                        resources |-> rl.resources,
                        image |-> get_container(spec_requirements, spec_hints,
                                                default_container)]]

----------------------------------------------------------------------------
(* TESTask.__init__ and what the engine set up before run() *)

Init ==
    /\ \E j \in JobInputs :
          /\ requirements = j.requirements
          /\ listing = j.listing
    /\ joborder = <<>>
    /\ stdout = None
    /\ stderr = None
    /\ spec_requirements = <<>>
    /\ spec_hints = <<>>
    /\ default_container = None
    /\ id = None
    /\ state = "UNKNOWN"
    /\ outputs = None
    /\ task = <<>>
    /\ current_try = 1
    /\ pc = "start"
    /\ exc = "none"
    /\ tmpfiles = {}
    /\ tmp_exists = TRUE
    /\ stage_exists \in BOOLEAN
    /\ rm_tmpdir \in BOOLEAN
    /\ create_calls = 0
    /\ minimal_calls = 0
    /\ failed_polls = 0
    /\ running_polls = 0
    /\ retried_ok = FALSE
    /\ full_calls = 0
    /\ full_raised = FALSE
    /\ collected = "no"
    /\ log = <<>>

job_vars == <<requirements, listing, joborder, stdout, stderr,
              spec_requirements, spec_hints, default_container>>
fs_vars == <<tmpfiles, tmp_exists, stage_exists, rm_tmpdir>>
poll_vars == <<minimal_calls, failed_polls, running_polls, retried_ok, current_try>>
full_vars == <<full_calls, full_raised>>

----------------------------------------------------------------------------
(* run(): translation and submission *)

\* task = self.create_task_msg(), outside any try: UnsupportedRequirement
\* leaves run()
CreateTaskMsg ==
    /\ pc = "start"
    /\ LET r == create_task_msg(requirements, listing)
       IN  /\ tmpfiles' = tmpfiles \cup r.written
           /\ IF r.raised
              THEN /\ pc' = "raised"
                   /\ exc' = "UnsupportedRequirement"
                   /\ task' = task
              ELSE /\ pc' = "submit"
                   /\ exc' = exc
                   /\ task' = <<r.task>>
    /\ UNCHANGED <<job_vars, id, state, outputs, tmp_exists, stage_exists,
                   rm_tmpdir, create_calls, poll_vars, full_vars, collected, log>>

\* self.id = self.client.create_task(task) returns
CreateTaskOk ==
    /\ pc = "submit"
    /\ create_calls' = create_calls + 1
    /\ id' = "task-1"
    /\ pc' = "loop"
    /\ UNCHANGED <<job_vars, state, outputs, task, exc, fs_vars, poll_vars,
                   full_vars, collected, log>>

\* create_task raises and the handler only logs: run() goes on to poll
CreateTaskRaise_logged_only ==
    /\ pc = "submit"
    /\ create_calls' = create_calls + 1
    /\ pc' = "loop"
    /\ UNCHANGED <<job_vars, id, state, outputs, task, exc, fs_vars, poll_vars,
                   full_vars, collected, log>>

\* self.client.create_task(task) raises: raise WorkflowException(e)
CreateTaskRaise ==
    /\ pc = "submit"
    /\ create_calls' = create_calls + 1
    /\ pc' = "raised"
    /\ exc' = "WorkflowException"
    /\ UNCHANGED <<job_vars, id, state, outputs, task, fs_vars, poll_vars,
                   full_vars, collected, log>>

----------------------------------------------------------------------------
(* run(): the polling loop, "while not self.is_done()" *)

\* is_done() fetching the logs in every terminal state, COMPLETE included
IsDoneComplete_fetches_logs ==
    /\ pc = "loop"
    /\ state = "COMPLETE"
    /\ full_calls' = full_calls + 1
    /\ pc' = "collect"
    /\ UNCHANGED <<job_vars, id, state, outputs, task, exc, fs_vars,
                   create_calls, poll_vars, full_raised, collected, log>>

\* is_done() finds COMPLETE: no diagnostic fetch, the loop ends
IsDoneComplete ==
    /\ pc = "loop"
    /\ state = "COMPLETE"
    /\ pc' = "collect"
    /\ UNCHANGED <<job_vars, id, state, outputs, task, exc, fs_vars,
                   create_calls, poll_vars, full_vars, collected, log>>

\* is_done() finds another terminal state and get_task(id, "FULL") returns
IsDoneFailed ==
    /\ pc = "loop"
    /\ state \in terminal_states \ {"COMPLETE"}
    /\ full_calls' = full_calls + 1
    /\ pc' = "collect"
    /\ UNCHANGED <<job_vars, id, state, outputs, task, exc, fs_vars,
                   create_calls, poll_vars, full_raised, collected, log>>

\* is_done() finds another terminal state and get_task(id, "FULL") raises:
\* the call is in no try, the exception leaves is_done() and run()
IsDoneFailedRaise ==
    /\ pc = "loop"
    /\ state \in terminal_states \ {"COMPLETE"}
    /\ full_calls' = full_calls + 1
    /\ full_raised' = TRUE
    /\ pc' = "raised"
    /\ exc' = "Exception"
    /\ UNCHANGED <<job_vars, id, state, outputs, task, fs_vars,
                   create_calls, poll_vars, collected, log>>

\* the loop polling again although the stored state is terminal
PollOk_polls_terminal ==
    /\ pc = "loop"
    /\ \E s \in ServiceStates :
          /\ s \notin terminal_states => running_polls < MaxRunningPolls
          /\ state' = s
          /\ running_polls' =
                IF s \in terminal_states THEN running_polls ELSE running_polls + 1
          /\ retried_ok' = (retried_ok \/ (s \notin terminal_states /\ failed_polls > 0))
    /\ minimal_calls' = minimal_calls + 1
    /\ UNCHANGED <<job_vars, id, outputs, task, pc, exc, fs_vars, create_calls,
                   failed_polls, current_try, full_vars, collected, log>>

\* is_done() is False, the sleep, and get_task(id, "MINIMAL") answers s
PollOk ==
    /\ pc = "loop"
    /\ state \notin terminal_states
    /\ \A d \in sleep_range(current_try).lo .. sleep_range(current_try).hi : d >= 0
    /\ \E s \in ServiceStates :
          /\ s \notin terminal_states => running_polls < MaxRunningPolls
          /\ state' = s
          /\ running_polls' =
                IF s \in terminal_states THEN running_polls ELSE running_polls + 1
          /\ retried_ok' = (retried_ok \/ (s \notin terminal_states /\ failed_polls > 0))
    /\ minimal_calls' = minimal_calls + 1
    /\ UNCHANGED <<job_vars, id, outputs, task, pc, exc, fs_vars, create_calls,
                   failed_polls, current_try, full_vars, collected, log>>

\* the retry test written "current_try < max_tries": one retry fewer
PollRaise_one_retry_fewer ==
    /\ pc = "loop"
    /\ state \notin terminal_states
    /\ minimal_calls' = minimal_calls + 1
    /\ failed_polls' = failed_polls + 1
    /\ IF current_try < max_tries
       THEN /\ current_try' = current_try + 1
            /\ pc' = pc
       ELSE /\ current_try' = current_try
            /\ pc' = "collect"
    /\ UNCHANGED <<job_vars, id, state, outputs, task, exc, fs_vars,
                   create_calls, running_polls, retried_ok, full_vars,
                   collected, log>>

\* a failed poll ending the loop at once, with no retry
PollRaise_gives_up ==
    /\ pc = "loop"
    /\ state \notin terminal_states
    /\ minimal_calls' = minimal_calls + 1
    /\ failed_polls' = failed_polls + 1
    /\ pc' = "collect"
    /\ UNCHANGED <<job_vars, id, state, outputs, task, exc, fs_vars,
                   create_calls, running_polls, retried_ok, current_try,
                   full_vars, collected, log>>

\* is_done() is False, the sleep, and get_task(id, "MINIMAL") raises:
\* retry (continue) while current_try <= max_tries, else break
PollRaise ==
    /\ pc = "loop"
    /\ state \notin terminal_states
    /\ \A d \in sleep_range(current_try).lo .. sleep_range(current_try).hi : d >= 0
    /\ minimal_calls' = minimal_calls + 1
    /\ failed_polls' = failed_polls + 1
    /\ IF current_try <= max_tries
       THEN /\ current_try' = current_try + 1
            /\ pc' = pc
       ELSE /\ current_try' = current_try
            /\ pc' = "collect"
    /\ UNCHANGED <<job_vars, id, state, outputs, task, exc, fs_vars,
                   create_calls, running_polls, retried_ok, full_vars,
                   collected, log>>

----------------------------------------------------------------------------
(* run(): the try / except / finally after the loop *)

CallbackEntry(outs, status) == [op |-> "callback", outputs |-> outs, status |-> status]
CleanupEntry == [op |-> "cleanup", outputs |-> "-", status |-> "-"]

\* self.collect_outputs(self.outdir) returns a mapping; self.outputs is
\* assigned inside the loop over its items, so an empty mapping leaves it None
CollectOutputsOk ==
    /\ pc = "collect"
    /\ \E nonempty \in BOOLEAN :
          outputs' = IF nonempty THEN "outputs" ELSE outputs
    /\ collected' = "ok"
    /\ pc' = "callback"
    /\ UNCHANGED <<job_vars, id, state, task, exc, fs_vars, create_calls,
                   poll_vars, full_vars, log>>

\* self.collect_outputs(self.outdir) raises (a WorkflowException or any
\* other Exception: both handlers do the same)
CollectOutputsRaise ==
    /\ pc = "collect"
    /\ collected' = "raised"
    /\ pc' = "except"
    /\ UNCHANGED <<job_vars, id, state, outputs, task, exc, fs_vars,
                   create_calls, poll_vars, full_vars, log>>

\* self.output_callback(self.outputs, "success") returns
CallbackSuccess ==
    /\ pc = "callback"
    /\ log' = Append(log, CallbackEntry(outputs, "success"))
    /\ pc' = "finally"
    /\ UNCHANGED <<job_vars, id, state, outputs, task, exc, fs_vars,
                   create_calls, poll_vars, full_vars, collected>>

\* self.output_callback(self.outputs, "success") raises inside the try
CallbackSuccessRaise ==
    /\ pc = "callback"
    /\ log' = Append(log, CallbackEntry(outputs, "success"))
    /\ pc' = "except"
    /\ UNCHANGED <<job_vars, id, state, outputs, task, exc, fs_vars,
                   create_calls, poll_vars, full_vars, collected>>

\* the except handlers: self.output_callback({}, "permanentFail") returns
CallbackFail ==
    /\ pc = "except"
    /\ log' = Append(log, CallbackEntry("{}", "permanentFail"))
    /\ pc' = "finally"
    /\ UNCHANGED <<job_vars, id, state, outputs, task, exc, fs_vars,
                   create_calls, poll_vars, full_vars, collected>>

\* self.output_callback({}, "permanentFail") raises inside a handler: the
\* exception is pending while the finally clause runs
CallbackFailRaise ==
    /\ pc = "except"
    /\ log' = Append(log, CallbackEntry("{}", "permanentFail"))
    /\ exc' = "Exception"
    /\ pc' = "finally"
    /\ UNCHANGED <<job_vars, id, state, outputs, task, fs_vars,
                   create_calls, poll_vars, full_vars, collected>>

\* cleanup() removing the temporary directory whatever rm_tmpdir says
Cleanup_ignores_rm_tmpdir ==
    /\ pc = "finally"
    /\ stage_exists' = FALSE
    /\ tmp_exists' = FALSE
    /\ tmpfiles' = {}
    /\ log' = Append(log, CleanupEntry)
    /\ pc' = IF exc = "none" THEN "done" ELSE "raised"
    /\ UNCHANGED <<job_vars, id, state, outputs, task, exc, rm_tmpdir,
                   create_calls, poll_vars, full_vars, collected>>

\* the finally clause: self.cleanup(self.runtime_context.rm_tmpdir), then
\* run() returns or the pending exception leaves it
Cleanup ==
    /\ pc = "finally"
    /\ stage_exists' = FALSE
    /\ tmp_exists' = IF rm_tmpdir THEN FALSE ELSE tmp_exists
    /\ tmpfiles' = IF rm_tmpdir THEN {} ELSE tmpfiles
    /\ log' = Append(log, CleanupEntry)
    /\ pc' = IF exc = "none" THEN "done" ELSE "raised"
    /\ UNCHANGED <<job_vars, id, state, outputs, task, exc, rm_tmpdir,
                   create_calls, poll_vars, full_vars, collected>>

----------------------------------------------------------------------------

Next ==
    \/ CreateTaskMsg
    \/ CreateTaskOk
    \/ CreateTaskRaise
    \/ IsDoneComplete
    \/ IsDoneFailed
    \/ IsDoneFailedRaise
    \/ PollOk
    \/ PollRaise
    \/ CollectOutputsOk
    \/ CollectOutputsRaise
    \/ CallbackSuccess
    \/ CallbackSuccessRaise
    \/ CallbackFail
    \/ CallbackFailRaise
    \/ Cleanup

Spec == Init /\ [][Next]_vars

----------------------------------------------------------------------------
(* Translation alone: create_task_msg applied to one job *)

\* the state of a constructed TESTask, the job apart
Constructed ==
    /\ id = None
    /\ state = "UNKNOWN"
    /\ outputs = None
    /\ task = <<>>
    /\ current_try = 1
    /\ pc = "start"
    /\ exc = "none"
    /\ tmpfiles = {}
    /\ tmp_exists = TRUE
    /\ stage_exists = TRUE
    /\ rm_tmpdir = FALSE
    /\ create_calls = 0
    /\ minimal_calls = 0
    /\ failed_polls = 0
    /\ running_polls = 0
    /\ retried_ok = FALSE
    /\ full_calls = 0
    /\ full_raised = FALSE
    /\ collected = "no"
    /\ log = <<>>

\* jobs that differ in their job order
InitInputs ==
    /\ joborder \in JobOrders
    /\ listing \in SeqsUpTo({e \in ListingEntries : e.writable = "absent"}, 1)
    /\ requirements = <<>>
    /\ stdout = None
    /\ stderr = None
    /\ spec_requirements = <<>>
    /\ spec_hints = <<>>
    /\ default_container = None
    /\ Constructed

\* jobs that differ in the requirements and hints of the tool document and
\* in the configured default container
InitContainer ==
    /\ spec_requirements \in SeqsUpTo(SpecRequirements, MaxSpecRequirements)
    /\ spec_hints \in SeqsUpTo(SpecRequirements, MaxSpecRequirements)
    /\ default_container \in {None, "default:img"}
    /\ joborder = <<>>
    /\ listing = <<>>
    /\ requirements = <<>>
    /\ stdout = None
    /\ stderr = None
    /\ Constructed

\* jobs that differ in stdout, stderr and self.builder.requirements
InitOutputs ==
    /\ stdout \in {None, "out.txt"}
    /\ stderr \in {None, "err.txt"}
    /\ requirements \in
          SeqsUpTo(DockerRequirements \cup {PlainResources, OtherRequirement},
                   MaxRequirements)
    /\ joborder \in {<<>>, <<Kid("x", PlainFile)>>}
    /\ listing = <<>>
    /\ spec_requirements = <<>>
    /\ spec_hints = <<>>
    /\ default_container = None
    /\ Constructed

NextMsg == CreateTaskMsg

SpecInputs == InitInputs /\ [][NextMsg]_vars
SpecContainer == InitContainer /\ [][NextMsg]_vars
SpecOutputs == InitOutputs /\ [][NextMsg]_vars

----------------------------------------------------------------------------
(* What the claims speak about *)

Callbacks == SelectSeq(log, LAMBDA e : e.op = "callback")
Reported(status) == \E i \in 1..Len(log) : log[i].op = "callback" /\ log[i].status = status
ReportedFailure == \E i \in 1..Len(log) : log[i] = CallbackEntry("{}", "permanentFail")
CleanupRan == \E i \in 1..Len(log) : log[i].op = "cleanup"
Ended == pc \in {"done", "raised"}
FailureStates == terminal_states \ {"COMPLETE"}
\* the polling loop was left by the break of the retry limit
Abandoned == collected # "no" /\ state \notin terminal_states

\* C1: a run whose polling ended in CANCELED, EXECUTOR_ERROR or SYSTEM_ERROR
\* reports ({}, "permanentFail") and never "success"; "success" is reported
\* only when the last observed state is COMPLETE.
C1_FailureStateReportsPermanentFail ==
    /\ state \in FailureStates =>
          /\ ~Reported("success")
          /\ pc = "done" => ReportedFailure
    /\ Reported("success") => state = "COMPLETE"

\* C2: when polling is abandoned in a non-terminal state, the retry limit
\* was used up, the state is the last one known (UNKNOWN if every poll
\* raised), the run reports ({}, "permanentFail") and never "success".
C2_AbandonedPollingReportsPermanentFail ==
    Abandoned =>
        /\ failed_polls = max_tries + 1
        /\ minimal_calls = failed_polls => state = "UNKNOWN"
        /\ ~Reported("success")
        /\ pc = "done" => ReportedFailure

\* C3: a run whose submission was accepted, whose first k polls answered a
\* non-terminal state and whose next poll answered COMPLETE, with
\* collect_outputs returning, called create_task once and
\* get_task(MINIMAL) k+1 times, never get_task(FULL), and its first and
\* only "success" callback came before any other callback.
C3_RunningThenCompleteSucceeds ==
    (pc \in {"finally", "done", "raised"} /\ failed_polls = 0
        /\ state = "COMPLETE" /\ collected = "ok") =>
        /\ create_calls = 1
        /\ minimal_calls = running_polls + 1
        /\ full_calls = 0
        /\ Len(SelectSeq(log, LAMBDA e : e.status = "success")) = 1
        /\ log[1].status = "success"

C3_Witness ==
    /\ pc = "done" /\ state = "COMPLETE" /\ failed_polls = 0
    /\ running_polls = 3 /\ minimal_calls = 4 /\ create_calls = 1
    /\ log = <<CallbackEntry("outputs", "success"), CleanupEntry>>

\* C4: no run ends, by return or by exception, without cleanup having run.
C4_CleanupOnEveryPath == Ended => CleanupRan

\* C5: every fatal error kind (UnsupportedRequirement, submission failure,
\* a terminal state other than COMPLETE, collect_outputs raising) ends with
\* ({}, "permanentFail") reported and with no exception leaving run().
C5_FatalKindsReportedNotRaised ==
    (Ended /\ (\/ exc = "UnsupportedRequirement"
               \/ exc = "WorkflowException"
               \/ state \in FailureStates
               \/ collected = "raised")) =>
        /\ ReportedFailure
        /\ exc \notin {"UnsupportedRequirement", "WorkflowException"}

\* C6: create_task is called at most once in a run, and when it raised (it
\* was called and no id was stored) the run has ended with a
\* WorkflowException, the id unset, the state UNKNOWN, and no get_task call.
C6_SubmissionNotRetried ==
    /\ create_calls <= 1
    /\ (create_calls = 1 /\ id = None) =>
          /\ pc = "raised" /\ exc = "WorkflowException"
          /\ state = "UNKNOWN"
          /\ minimal_calls = 0 /\ full_calls = 0

C6_Witness ==
    /\ pc = "raised" /\ exc = "WorkflowException" /\ create_calls = 1
    /\ id = None /\ task # <<>>

\* C7: when the diagnostic get_task(id, "FULL") raised, the run still
\* invokes the output callback and runs cleanup.
C7_DiagnosticFailureNonFatal ==
    (full_raised /\ Ended) => (Callbacks # <<>> /\ CleanupRan)

\* C8: a run that reached collect_outputs and ended has run cleanup exactly
\* once, as the last call and after a callback; the staging directory is
\* gone whatever rm_tmpdir is, and the temporary directory is gone exactly
\* when rm_tmpdir is true, with its files as create_task_msg left them
\* otherwise.
C8_CleanupAfterCallback ==
    /\ \A i \in 1..Len(log) :
          log[i].op = "cleanup" =>
              /\ i = Len(log) /\ i > 1
              /\ \A j \in 1..(i - 1) : log[j].op = "callback"
    /\ (collected # "no" /\ Ended) =>
          /\ CleanupRan
          /\ ~stage_exists
          /\ tmp_exists <=> ~rm_tmpdir
          /\ ~rm_tmpdir => tmpfiles = create_task_msg(requirements, listing).written
          /\ rm_tmpdir => tmpfiles = {}

C8_Witness ==
    /\ pc = "done" /\ collected = "raised" /\ ~rm_tmpdir
    /\ tmp_exists /\ tmpfiles # {} /\ ~stage_exists
    /\ log = <<CallbackEntry("{}", "permanentFail"), CleanupEntry>>

\* some bound of a ResourceRequirement of the job is an expression string
HasExpressionBound ==
    \E i \in 1..Len(requirements) :
        /\ requirements[i].class = "ResourceRequirement"
        /\ \/ IsStr(requirements[i].coresMin) \/ IsStr(requirements[i].coresMax)
           \/ IsStr(requirements[i].ramMin) \/ IsStr(requirements[i].ramMax)
           \/ IsStr(requirements[i].outdirMin) \/ IsStr(requirements[i].outdirMax)

\* C9: a ResourceRequirement with an expression in any bound makes
\* create_task_msg raise UnsupportedRequirement: no task is built and
\* create_task is never called.
C9_ExpressionBoundRejected ==
    (HasExpressionBound /\ pc # "start") =>
        /\ pc = "raised" /\ exc = "UnsupportedRequirement"
        /\ task = <<>> /\ create_calls = 0

\* some entry of the generated-files listing is flagged writable
HasWritableEntry == \E i \in 1..Len(listing) : listing[i].writable = "true"

\* C10: a listing with an entry flagged writable, at any position, makes
\* translation raise UnsupportedRequirement before any submission:
\* create_task is never called in that run.
C10_WritableEntryRejected ==
    (HasWritableEntry /\ pc # "start") =>
        /\ pc = "raised" /\ exc = "UnsupportedRequirement"
        /\ task = <<>> /\ create_calls = 0 /\ id = None

C10_Witness ==
    /\ pc = "raised" /\ exc = "UnsupportedRequirement" /\ Len(listing) = 2
    /\ listing[1].writable = "absent" /\ listing[1].contents
    /\ listing[2].writable = "true" /\ tmpfiles # {}

\* the polling loop has been left by its condition or by its break
LeftLoop == pc \in {"collect", "callback", "except", "finally"} \/ collected # "no"

\* C14: at most 11 polls raise in a run (the first failure and 10 retries),
\* the counter current_try never exceeds 11, the failure that exceeds the
\* maximum ends the loop, and a run whose polls all raised left the loop
\* after exactly 11 polls.
C14_PollRetriedAtMostTenTimes ==
    /\ failed_polls <= max_tries + 1
    /\ current_try <= max_tries + 1
    /\ failed_polls = max_tries + 1 => pc # "loop"
    /\ (LeftLoop /\ minimal_calls = failed_polls) => minimal_calls = max_tries + 1

C14_Witness ==
    /\ pc = "collect" /\ state = "UNKNOWN" /\ current_try = 11
    /\ failed_polls = 11 /\ minimal_calls = 11

\* C15: polling is abandoned only after more than 10 failed polls in a row:
\* in a run whose polling was abandoned, no poll answered a non-terminal
\* state after an earlier poll had raised.
C15_LimitCountsConsecutiveFailures == Abandoned => ~retried_ok

\* C16: before each poll the loop sleeps a whole number d of seconds with
\* 0.5 * base <= d <= 1.5 * base, base = 1.5 * n^2, n = 1 + the number of
\* failed polls so far; current_try is that n, so a successful poll leaves
\* the range as it is.
C16_SleepWithinHalfOfBase ==
    (pc = "loop" /\ state \notin terminal_states) =>
        LET n == 1 + failed_polls
            r == sleep_range(current_try)
        IN  /\ current_try = n
            /\ r.lo <= r.hi
            /\ \A d \in r.lo .. r.hi : 3 * n * n <= 4 * d /\ 4 * d <= 9 * n * n

C16_Witness ==
    /\ pc = "loop" /\ state = "RUNNING" /\ running_polls >= 2
    /\ failed_polls = 10 /\ current_try = 11
    /\ sleep_range(current_try) = [lo |-> 91, hi |-> 272]

\* C17: once a poll stored a terminal state, the state never changes and
\* no get_task(MINIMAL) follows; get_task(FULL) is called at most once,
\* never before a terminal state other than COMPLETE is stored, never for
\* COMPLETE, and exactly once by the time the loop is left in another
\* terminal state.
DiagnosticFetchOnce ==
    /\ full_calls <= 1
    /\ state \notin FailureStates => full_calls = 0
    /\ (state \in FailureStates /\ pc # "loop") => full_calls = 1
TerminalStateKept ==
    state \in terminal_states => (state' = state /\ minimal_calls' = minimal_calls)
C17_TerminalStateIsFinal == []DiagnosticFetchOnce /\ [][TerminalStateKept]_vars

C17_Witness ==
    /\ pc = "done" /\ state = "CANCELED" /\ full_calls = 1
    /\ running_polls = 2 /\ failed_polls = 1 /\ minimal_calls = 4

\* C18: the loop is left only with a terminal state stored or by the failed
\* poll that exceeds the retry maximum, so a submitted run whose polls are
\* answered with non-terminal states stays in the loop and reaches neither
\* collect_outputs, the callback nor cleanup; the state is changed only by
\* a poll of the loop that did not raise.
StaysInLoopWhileNotTerminal ==
    (id # None /\ state \notin terminal_states /\ failed_polls <= max_tries)
        => (pc = "loop" /\ collected = "no" /\ log = <<>>)
LoopExitStep ==
    (pc = "loop" /\ pc' # "loop") =>
        \/ state \in terminal_states
        \/ (failed_polls' = failed_polls + 1 /\ failed_polls' > max_tries)
StateChangeStep ==
    state' # state =>
        /\ pc = "loop"
        /\ minimal_calls' = minimal_calls + 1
        /\ failed_polls' = failed_polls
C18_LoopLeftOnlyWhenTerminalOrAbandoned ==
    []StaysInLoopWhileNotTerminal /\ [][LoopExitStep /\ StateChangeStep]_vars

C18_Witness ==
    /\ pc = "loop" /\ state = "RUNNING" /\ running_polls = 4
    /\ failed_polls = 0 /\ minimal_calls = 4 /\ log = <<>>

\* C19: a run that left the polling loop and ended has invoked the output
\* callback exactly once.
C19_CallbackExactlyOnce ==
    (Ended /\ collected # "no") => Len(Callbacks) = 1

\* the resource claim the spec gives a ResourceRequirement: min preferred
\* over max, ram and disk converted, an omitted field left unset
ExpectedResources(r) ==
    LET ram == GetOr(r.ramMin, r.ramMax)
        disk == GetOr(r.outdirMin, r.outdirMax)
    IN  [cpu_cores |-> GetOr(r.coresMin, r.coresMax),
         ram_gb |-> IF IsNone(ram) THEN NoBound ELSE ToGB(ram),
         disk_gb |-> IF IsNone(disk) THEN NoBound ELSE ToGB(disk)]

\* C20: a ResourceRequirement whose present bounds are all numeric, some of
\* cores, ram and disk being omitted, is translated without
\* UnsupportedRequirement into a task whose resources carry the given values
\* and leave the omitted ones unset.
C20_OmittedResourcesAccepted ==
    (pc # "start" /\ ~HasExpressionBound /\ ~parse_listing(listing, <<>>).raised
        /\ Len(requirements) = 1 /\ requirements[1].class = "ResourceRequirement") =>
        /\ exc # "UnsupportedRequirement"
        /\ task # <<>>
        /\ task[1].resources = ExpectedResources(requirements[1])

\* the paths of the file references of a job-order value, secondaryFiles
\* included, in document order
RECURSIVE LeafPaths(_)
RECURSIVE KidsLeafPaths(_, _)
LeafPaths(v) ==
    (IF v.tag = "file" THEN <<v.path>> ELSE <<>>) \o KidsLeafPaths(v.kids, 1)
KidsLeafPaths(kids, i) ==
    IF i > Len(kids) THEN <<>>
    ELSE LeafPaths(kids[i].val) \o KidsLeafPaths(kids, i + 1)

\* no scalar anywhere in the value: every leaf is a file reference
RECURSIVE OnlyFileLeaves(_)
OnlyFileLeaves(v) ==
    /\ v.tag # "scalar"
    /\ \A i \in 1..Len(v.kids) : OnlyFileLeaves(v.kids[i].val)

Occurrences(seq, x) == Cardinality({i \in 1..Len(seq) : seq[i] = x})
FilePaths == {"a", "b", "b.idx"}

\* C11: for a job order whose leaves are all file references, nested through
\* mappings and lists in any combination, the inputs of the task hold
\* exactly one descriptor per file reference and per secondary file.
C11_OneInputPerLeaf ==
    (pc = "submit" /\ \A i \in 1..Len(joborder) : OnlyFileLeaves(joborder[i].val)) =>
        LET paths == [i \in 1..Len(task[1].inputs) |-> task[1].inputs[i].path]
            leaves == KidsLeafPaths(joborder, 1)
        IN  \A p \in FilePaths : Occurrences(paths, p) = Occurrences(leaves, p)

\* the DockerRequirements of requirements + hints, and the image one names
DockerOf(reqs) == SelectSeq(reqs, LAMBDA q : q.class = "DockerRequirement")
ExplicitImage(q) ==
    IF q.dockerPull # None THEN q.dockerPull ELSE q.dockerImageId

\* C12: the image is the explicit dockerPull / dockerImageId of the last
\* DockerRequirement of requirements + hints; when no DockerRequirement
\* names an image it is the configured default container if one is set,
\* and "python:2.7" only when there is neither.
C12_ContainerPrecedence ==
    pc = "submit" =>
        LET dockers == DockerOf(spec_requirements \o spec_hints)
        IN  /\ (dockers # <<>> /\ ExplicitImage(dockers[Len(dockers)]) # None) =>
                  task[1].image = ExplicitImage(dockers[Len(dockers)])
            /\ (\A i \in 1..Len(dockers) : ExplicitImage(dockers[i]) = None) =>
                  task[1].image =
                      IF default_container # None THEN default_container
                      ELSE "python:2.7"

WorkdirPositions ==
    {i \in 1..Len(task[1].outputs) : task[1].outputs[i] = workdir_output}
DeclaredStd == Len(StdOutput("stdout", stdout)) + Len(StdOutput("stderr", stderr))
DockerOutputDirs ==
    SelectSeq(requirements, LAMBDA q : q.class = "DockerRequirement"
                                       /\ q.dockerOutputDirectory # None)

\* C13 as stated: the outputs of every task hold the working-directory
\* descriptor exactly once and as their last element.
C13_WorkdirOutputLast ==
    pc = "submit" =>
        /\ Cardinality(WorkdirPositions) = 1
        /\ task[1].outputs[Len(task[1].outputs)] = workdir_output

\* C13 amended: the outputs of every task hold the working-directory
\* descriptor exactly once, right after the stdout and stderr outputs, and
\* all that follows it is one dockerOutputDirectory output for each
\* DockerRequirement of self.builder.requirements that names one: it is the
\* last element exactly when there is none.
C13_WorkdirOutputAfterStd ==
    pc = "submit" =>
        LET outs == task[1].outputs
        IN  /\ WorkdirPositions = {DeclaredStd + 1}
            /\ Len(outs) = DeclaredStd + 1 + Len(DockerOutputDirs)
            /\ \A i \in 1..DeclaredStd : outs[i].name \in {"stdout", "stderr"}
            /\ \A i \in 1..Len(DockerOutputDirs) :
                  /\ outs[DeclaredStd + 1 + i].name = "dockerOutputDirectory"
                  /\ outs[DeclaredStd + 1 + i].path = DockerOutputDirs[i].dockerOutputDirectory
            /\ outs[Len(outs)] = workdir_output <=> DockerOutputDirs = <<>>

C13_Witness ==
    /\ pc = "submit" /\ stdout # None /\ stderr # None
    /\ Len(DockerOutputDirs) = 1
    /\ Len(task[1].outputs) = 4
    /\ task[1].outputs[3] = workdir_output
    /\ task[1].outputs[4].name = "dockerOutputDirectory"

====
